---- MODULE Spec2Model ----
(***************************************************************************)
(* Model of the Excel crawler (crawler.py) and of the query tool           *)
(* (query_data.py).                                                        *)
(*                                                                         *)
(* The SQLite database is modelled as the durable store (`store`) plus the *)
(* rows inserted by the open, not yet committed transaction of the single  *)
(* connection (`pending`).  Python's sqlite3 module opens a transaction    *)
(* implicitly before an INSERT and leaves DDL in autocommit mode, so       *)
(* CREATE TABLE / ALTER TABLE are durable at once while inserted rows      *)
(* become durable at conn.commit().                                        *)
(*                                                                         *)
(* Text is modelled as a sequence of one-character strings.  The MD5       *)
(* digest is modelled as an injective function of the serialised row (the  *)
(* serialisation itself); digest collisions are not modelled.  SQLite's    *)
(* case-insensitive column matching is not modelled (letters are lower     *)
(* case only).  Failures of the storage layer itself (I/O errors on        *)
(* SELECT or COMMIT) are not modelled.                                     *)
(***************************************************************************)
EXTENDS Integers, Sequences, FiniteSets, TLC

\* ------------------------------------------------------------------ bounds
MaxFiles    == 2   \* longest directory listing of one run
MaxRuns     == 2   \* number of runs of main() against the same database
MaxLabelLen == 3   \* longest label given to sanitize_column_name
MaxRowCols  == 3   \* widest row mapping given to calculate_row_hash

\* ------------------------------------------------------ program constants
MaxSheets == 4     \* sheet_names[:4]

\* ------------------------------------------------------------- characters
Letters == {"a", "b", "c", "d", "e", "f", "h", "i", "l", "m", "n", "o",
            "r", "s", "u", "w"}
Digits  == {"1", "2"}
Symbols == {" ", "-"}
Chars   == Letters \cup Digits \cup Symbols \cup {"_"}

\* Characters in code point order.
CharOrder == <<" ", "-", "1", "2", "_", "a", "b", "c", "d", "e", "f", "h",
               "i", "l", "m", "n", "o", "r", "s", "u", "w">>

Code(c) == CHOOSE n \in 1..Len(CharOrder) : CharOrder[n] = c

\* The regular expression class [\w\d_].
IsWordChar(c) == c \in Letters \cup Digits \cup {"_"}

\* str.isdigit()
IsDigit(c) == c \in Digits

COL_PREFIX     == <<"c", "o", "l", "_">>
UNNAMED_COLUMN == <<"u", "n", "n", "a", "m", "e", "d", "_",
                    "c", "o", "l", "u", "m", "n">>
ID_COL         == <<"i", "d">>
FILE_NAME_COL  == <<"f", "i", "l", "e", "_", "n", "a", "m", "e">>
ROW_HASH_COL   == <<"r", "o", "w", "_", "h", "a", "s", "h">>
SystemColumns  == <<ID_COL, FILE_NAME_COL, ROW_HASH_COL>>

\* A table column is <<name, declared type>>.
SystemColumnDefs == <<<<ID_COL, "INTEGER">>, <<FILE_NAME_COL, "TEXT">>,
                      <<ROW_HASH_COL, "TEXT">>>>

Range(s) == {s[n] : n \in 1..Len(s)}

\* re.sub(r'[^\w\d_]', '_', name)
ReSub(name) == [n \in 1..Len(name) |-> IF IsWordChar(name[n]) THEN name[n] ELSE "_"]

\* A plausible slip: the digit prefix is forgotten.
sanitize_no_prefix(name) ==
  LET s == ReSub(name) IN IF s = <<>> THEN UNNAMED_COLUMN ELSE s

sanitize_column_name(name) ==
  LET s1 == ReSub(name)
      s2 == IF s1 # <<>> /\ IsDigit(s1[1]) THEN COL_PREFIX \o s1 ELSE s1
  IN  IF s2 = <<>> THEN UNNAMED_COLUMN ELSE s2

\* Python's str comparison: lexicographic by code point.
RECURSIVE StrLess(_, _)
StrLess(s, t) ==
  IF t = <<>> THEN FALSE
  ELSE IF s = <<>> THEN TRUE
  ELSE IF s[1] # t[1] THEN Code(s[1]) < Code(t[1])
  ELSE StrLess(Tail(s), Tail(t))

\* Insert one (key, value) item into a list of items sorted by key.
RECURSIVE InsertSorted(_, _)
InsertSorted(item, sorted) ==
  IF sorted = <<>> THEN <<item>>
  ELSE IF StrLess(item[1], sorted[1][1]) THEN <<item>> \o sorted
  ELSE <<sorted[1]>> \o InsertSorted(item, Tail(sorted))

\* sorted(row_data.items()) as json.dumps(..., sort_keys=True) does it.
RECURSIVE SortItems(_)
SortItems(items) ==
  IF items = <<>> THEN <<>>
  ELSE InsertSorted(items[1], SortItems(Tail(items)))

\* A plausible slip: sort_keys is forgotten, the items keep dict order.
hash_unsorted(row_data) == row_data

\* row_data is the dict in insertion order: a sequence of <<label, text>>.
calculate_row_hash(row_data) == SortItems(row_data)


\* ------------------------------------------------------------ the inputs
MaxSheetsInFile == 5   \* most worksheets in one workbook

TableIds == 1..MaxSheetsInFile

NAN == "nan"      \* the text pandas gives to a missing cell
BAD == "bad"      \* a text sqlite3 cannot bind (a lone surrogate)

La  == <<"a">>
Lb  == <<"b">>
L1  == <<"1">>
LaSpaceB == <<"a", " ", "b">>
LaDashB  == <<"a", "-", "b">>

Sheet(name, readable, columns, rows) ==
  [name |-> name, readable |-> readable, columns |-> columns, rows |-> rows]

File(base, openable, sheets) ==
  [base |-> base, openable |-> openable, sheets |-> sheets]

\* The workbooks a directory may hold.  Worksheet names are unique inside
\* a workbook, as are the column labels of one worksheet.
FileA == File("A", TRUE,
  << Sheet("S1", TRUE, <<La>>, << <<"x">>, <<"y">>, <<"x">> >>),
     Sheet("S2", TRUE, <<La>>, << >>),
     Sheet("S3", TRUE, <<Lb, La>>, << <<"y", "x">> >>) >>)

FileB == File("B", TRUE,
  << Sheet("Z", TRUE, <<La>>, << <<"x">>, <<BAD>>, <<NAN>> >>),
     Sheet("S1", TRUE, <<La, L1>>, << <<"y", "x">> >>) >>)

FileC == File("C", FALSE, << >>)

FileD == File("D", TRUE,
  << Sheet("S1", FALSE, <<La>>, << <<"y">> >>),
     Sheet("S2", TRUE, <<LaSpaceB, LaDashB>>, << <<"x", "y">> >>),
     Sheet("S3", TRUE, <<La, Lb>>, << <<"x", "y">> >>),
     Sheet("S4", TRUE, <<La>>, << <<"y">> >>),
     Sheet("S5", TRUE, <<La>>, << <<"x">> >>) >>)

\* A workbook that opens and whose only worksheet cannot be read.
FileE == File("E", TRUE,
  << Sheet("S1", FALSE, <<La>>, << <<"x">> >>) >>)

Catalogue == {FileA, FileB, FileC, FileD, FileE}

\* os.listdir order is arbitrary: any sequence of distinct files.
Listings ==
  {l \in UNION {[1..n -> Catalogue] : n \in 0..MaxFiles} :
     \A p, q \in 1..Len(l) : p # q => l[p] # l[q]}

None == "None"

EmptyTable == [exists |-> FALSE, columns |-> <<>>, rows |-> <<>>]
NoDf       == [name |-> None, columns |-> <<>>, rows |-> <<>>]
NoDdl      == [created |-> FALSE, attempted |-> 0, failed |-> 0]

VARIABLES
  store,          \* the committed database: table id k (sheet_k) -> table
  pending,        \* rows inserted by the open transaction, not yet committed
  pc,             \* position of the run
  run,            \* number of runs of main() started so far
  excel_files,    \* main: the located files, in listing order
  fidx,           \* main: number of files taken from excel_files
  success_count,  \* main: files for which process_excel_file returned True
  sheet_names,    \* process_excel_file: excel_file.sheet_names
  i,              \* process_excel_file: ordinal of the current worksheet
  df,             \* process_excel_file: the current worksheet's data frame
  ridx,           \* process_excel_file: rows of df taken so far
  rows_total,     \* process_excel_file: rows_total
  rows_added,     \* process_excel_file: rows_added
  insert_errors,  \* insert errors logged for the current worksheet
  ddl,            \* what the last create_table_for_sheet call did
  calls,          \* history: the process_excel_file calls of this run
  outcome,        \* history: <<file, ordinal, result>> of this run's worksheets
  prev,           \* history: file whose call just before returned without insert error
  rerun,          \* history: the current call repeats the call just before it
  clean,          \* history: no insert error in the current call so far
  lost,           \* history: rows of the open transaction an interrupt discarded
  arg,            \* the argument given to the function applied last
  res             \* the value it returned

vars == <<store, pending, pc, run, excel_files, fidx, success_count,
          sheet_names, i, df, ridx, rows_total, rows_added, insert_errors,
          ddl, calls, outcome, prev, rerun, clean, lost, arg, res>>

dbVars   == <<store, pending>>
mainVars == <<excel_files, fidx, success_count>>
fileVars == <<sheet_names, i>>
rowVars  == <<df, ridx, rows_total, rows_added, insert_errors>>
pureVars == <<arg, res>>
restVars == <<store, pending, run, excel_files, fidx, success_count, sheet_names,
              i, df, ridx, rows_total, rows_added, insert_errors, ddl, calls,
              outcome, prev, rerun, clean, lost>>

Init ==
  /\ store = [k \in TableIds |-> EmptyTable]
  /\ pending = [k \in TableIds |-> <<>>]
  /\ pc = "idle"
  /\ run = 0
  /\ excel_files = <<>>
  /\ fidx = 0
  /\ success_count = 0
  /\ sheet_names = <<>>
  /\ i = 0
  /\ df = NoDf
  /\ ridx = 0
  /\ rows_total = 0
  /\ rows_added = 0
  /\ insert_errors = 0
  /\ ddl = NoDdl
  /\ calls = <<>>
  /\ outcome = {}
  /\ prev = None
  /\ rerun = FALSE
  /\ clean = TRUE
  /\ lost = 0
  /\ arg = <<>>
  /\ res = <<>>


\* ------------------------------------------------------- the storage layer
Min(a, b) == IF a < b THEN a ELSE b

HasDuplicates(s) == \E p, q \in 1..Len(s) : p # q /\ s[p] = s[q]

\* f'"{col}"'
Quoted(col) == <<"\"">> \o col \o <<"\"">>

\* The ALTER TABLE loop: a column SQLite already has raises "duplicate
\* column name", which is logged; the loop goes on with the next column.
RECURSIVE AlterLoop(_, _, _)
AlterLoop(new_columns, table_columns, failed) ==
  IF new_columns = <<>> THEN [columns |-> table_columns, failed |-> failed]
  ELSE IF new_columns[1] \in {d[1] : d \in Range(table_columns)}
       THEN AlterLoop(Tail(new_columns), table_columns, failed + 1)
       ELSE AlterLoop(Tail(new_columns),
                      Append(table_columns, <<new_columns[1], "TEXT">>), failed)

\* '"col" TEXT' for every column
TextDefs(columns) == [n \in 1..Len(columns) |-> <<columns[n], "TEXT">>]

\* PRAGMA table_info: row[1] of every row
ColumnNames(table) == [n \in 1..Len(table.columns) |-> table.columns[n][1]]

\* A plausible slip: the table is rebuilt from the current columns.
create_table_rebuild(table, df_columns) ==
  LET columns == [n \in 1..Len(df_columns) |-> sanitize_column_name(df_columns[n])]
  IN  [raised |-> HasDuplicates(SystemColumns \o columns),
       table  |-> IF HasDuplicates(SystemColumns \o columns) THEN table
                  ELSE [exists |-> TRUE,
                        columns |-> SystemColumnDefs \o TextDefs(columns),
                        rows |-> table.rows],
       ddl    |-> [created |-> TRUE, attempted |-> 0, failed |-> 0]]

\* create_table_for_sheet on one table: the table afterwards, whether
\* the call raised, and the column additions it attempted.
create_table_for_sheet(table, df_columns) ==
  LET columns == [n \in 1..Len(df_columns) |-> sanitize_column_name(df_columns[n])]
  IN  IF ~table.exists
      THEN IF HasDuplicates(SystemColumns \o columns)
           THEN [raised |-> TRUE, table |-> table, ddl |-> NoDdl]
           ELSE [raised |-> FALSE,
                 table  |-> [exists |-> TRUE,
                             columns |-> SystemColumnDefs \o TextDefs(columns),
                             rows |-> <<>>],
                 ddl    |-> [created |-> TRUE, attempted |-> 0, failed |-> 0]]
      ELSE LET existing_columns ==
                 SelectSeq(ColumnNames(table), LAMBDA c : c \notin Range(SystemColumns))
               new_columns ==
                 SelectSeq(columns, LAMBDA c : Quoted(c) \notin Range(existing_columns))
               done == AlterLoop(new_columns, table.columns, 0)
           IN  [raised |-> FALSE,
                table  |-> [table EXCEPT !.columns = done.columns],
                ddl    |-> [created |-> FALSE, attempted |-> Len(new_columns),
                            failed |-> done.failed]]

\* The rows of a table as the connection sees them.
ConnRows(table_name) == store[table_name].rows \o pending[table_name]

\* A plausible slip: the duplicate check looks at the rows of one file only.
is_duplicate_same_file(table_name, row_hash) ==
  \E n \in 1..Len(ConnRows(table_name)) :
     /\ ConnRows(table_name)[n].row_hash = row_hash
     /\ ConnRows(table_name)[n].file_name = excel_files[fidx].base

\* A plausible slip: the duplicate check misses the rows inserted in the
\* open transaction.
is_duplicate_committed(table_name, row_hash) ==
  \E n \in 1..Len(store[table_name].rows) :
     store[table_name].rows[n].row_hash = row_hash

\* A plausible slip: the duplicate check never finds anything.
is_duplicate_never(table_name, row_hash) == FALSE

is_duplicate(table_name, row_hash) ==
  \E n \in 1..Len(ConnRows(table_name)) : ConnRows(table_name)[n].row_hash = row_hash

\* Whether the INSERT of these values into these columns raises: a value
\* that cannot be bound, or a text written to the integer primary key.
InsertFails(columns, values) ==
  \/ \E n \in 1..Len(values) : values[n] = BAD
  \/ \E n \in 1..Len(columns) : columns[n] = ID_COL

FirstIndex(s, x) == CHOOSE n \in 1..Len(s) : s[n] = x /\ \A m \in 1..(n - 1) : s[m] # x

\* The record an INSERT stores: of a column named twice the first value
\* counts, and file_name and row_hash come first in the column list.
StoredRow(file_name, row_hash, columns, values) ==
  [file_name |-> file_name,
   row_hash  |-> row_hash,
   vals      |-> [c \in Range(columns) \ Range(SystemColumns) |->
                    values[FirstIndex(columns, c)]]]

\* df.astype(str).replace('nan', '')
Normalize(v) == IF v = NAN THEN "" ELSE v

NormalizeFrame(sheet) ==
  [name    |-> sheet.name,
   columns |-> sheet.columns,
   rows    |-> [n \in 1..Len(sheet.rows) |->
                 [m \in 1..Len(sheet.rows[n]) |-> Normalize(sheet.rows[n][m])]]]

\* row.to_dict(): the items of one row in column order.
RowData(columns, row) == [n \in 1..Len(columns) |-> <<columns[n], row[n]>>]

\* A plausible slip: every worksheet of the workbook is taken.
all_sheets(names) == names

\* sheet_names[:4]
first_sheets(names) == SubSeq(names, 1, Min(MaxSheets, Len(names)))

\* A plausible slip: the table is picked without regard to the position.
table_name_first(ordinal) == 1

\* f'sheet_{i}'
table_name_of(ordinal) == ordinal

SheetByName(file, name) == CHOOSE sh \in Range(file.sheets) : sh.name = name

CurFile == excel_files[fidx]


\* --------------------------------------------------------------- main()
NoPending == [k \in TableIds |-> <<>>]

\* main up to the file loop: a new process starts, the connection is opened
\* and the files are located; with no file the run returns at once.
StartRun(listing) ==
  /\ pc \in {"idle", "done", "interrupted"}
  /\ run < MaxRuns
  /\ run' = run + 1
  /\ excel_files' = listing
  /\ fidx' = 0
  /\ success_count' = 0
  /\ calls' = <<>>
  /\ outcome' = {}
  /\ pc' = IF listing = <<>> THEN "done" ELSE "files"
  /\ arg' = <<>>
  /\ res' = <<>>
  /\ sheet_names' = <<>>
  /\ i' = 0
  /\ df' = NoDf
  /\ ridx' = 0
  /\ rows_total' = 0
  /\ rows_added' = 0
  /\ insert_errors' = 0
  /\ ddl' = NoDdl
  /\ rerun' = FALSE
  /\ clean' = TRUE
  /\ lost' = 0
  /\ UNCHANGED <<dbVars, prev>>

\* A plausible slip: a workbook that cannot be opened ends the batch.
OpenFile_abort ==
  /\ pc = "files"
  /\ fidx < Len(excel_files)
  /\ fidx' = fidx + 1
  /\ LET f == excel_files[fidx + 1] IN
       /\ rerun' = (prev = f.base)
       /\ clean' = TRUE
       /\ IF f.openable
          THEN /\ sheet_names' = [n \in 1..Len(f.sheets) |-> f.sheets[n].name]
               /\ i' = 0
               /\ prev' = None
               /\ pc' = "sheets"
               /\ UNCHANGED <<success_count, calls>>
          ELSE /\ calls' = Append(calls, [file |-> f.base, ok |-> FALSE])
               /\ prev' = f.base
               /\ pc' = "done"
               /\ UNCHANGED <<success_count, fileVars>>
  /\ UNCHANGED <<dbVars, run, excel_files, rowVars, ddl, outcome, pureVars, lost>>

\* process_excel_file up to the worksheet loop.  A workbook that cannot
\* be opened raises in pd.ExcelFile: the call returns False.
OpenFile ==
  /\ pc = "files"
  /\ fidx < Len(excel_files)
  /\ fidx' = fidx + 1
  /\ LET f == excel_files[fidx + 1] IN
       /\ rerun' = (prev = f.base)
       /\ clean' = TRUE
       /\ IF f.openable
          THEN /\ sheet_names' = [n \in 1..Len(f.sheets) |-> f.sheets[n].name]
               /\ i' = 0
               /\ prev' = None
               /\ pc' = "sheets"
               /\ UNCHANGED <<success_count, calls>>
          ELSE /\ calls' = Append(calls, [file |-> f.base, ok |-> FALSE])
               /\ prev' = f.base
               /\ pc' = "files"
               /\ UNCHANGED <<success_count, fileVars>>
  /\ UNCHANGED <<dbVars, run, excel_files, rowVars, ddl, outcome, pureVars, lost>>

\* The end of main: the statistics are logged, the connection is closed.
FinishRun ==
  /\ pc = "files"
  /\ fidx = Len(excel_files)
  /\ pc' = "done"
  /\ pending' = NoPending
  /\ UNCHANGED <<store, run, mainVars, fileVars, rowVars, ddl, calls, outcome,
                 prev, rerun, clean, pureVars, lost>>

\* ---------------------------------------------------- process_excel_file
\* The head of the worksheet loop: the worksheet is read; an unreadable
\* one raises and is skipped, an empty one is skipped.
ReadSheet ==
  /\ pc = "sheets"
  /\ i < Len(first_sheets(sheet_names))
  /\ i' = i + 1
  /\ LET sheet_name == first_sheets(sheet_names)[i + 1]
         sheet == SheetByName(CurFile, sheet_name)
     IN  IF ~sheet.readable
         THEN /\ outcome' = outcome \cup {<<CurFile.base, i + 1, "failed">>}
              /\ pc' = "sheets"
              /\ UNCHANGED df
         ELSE IF sheet.rows = <<>>
         THEN /\ outcome' = outcome \cup {<<CurFile.base, i + 1, "empty">>}
              /\ pc' = "sheets"
              /\ UNCHANGED df
         ELSE /\ df' = NormalizeFrame(sheet)
              /\ pc' = "table"
              /\ UNCHANGED outcome
  /\ UNCHANGED <<dbVars, run, mainVars, sheet_names, ridx, rows_total, rows_added,
                 insert_errors, ddl, calls, prev, rerun, clean, pureVars, lost>>

\* create_table_for_sheet(conn, table_name, df) with its commit, and the
\* counters of the row loop.  A CREATE TABLE that raises ends the worksheet.
CreateTable ==
  /\ pc = "table"
  /\ LET t == table_name_of(i)
         r == create_table_for_sheet(store[t], df.columns)
     IN  /\ ddl' = r.ddl
         /\ IF r.raised
            THEN /\ outcome' = outcome \cup {<<CurFile.base, i, "failed">>}
                 /\ pc' = "sheets"
                 /\ UNCHANGED dbVars
            ELSE /\ store' = [k \in TableIds |->
                               IF k = t THEN [r.table EXCEPT !.rows = @ \o pending[k]]
                               ELSE [store[k] EXCEPT !.rows = @ \o pending[k]]]
                 /\ pending' = NoPending
                 /\ pc' = "rows"
                 /\ UNCHANGED outcome
  /\ ridx' = 0
  /\ rows_total' = 0
  /\ rows_added' = 0
  /\ insert_errors' = 0
  /\ UNCHANGED <<run, mainVars, fileVars, df, calls, prev, rerun, clean, pureVars, lost>>

\* A plausible slip: an insert error is not caught per row and ends the
\* worksheet in the worksheet's handler.
ProcessRow_abort ==
  /\ pc = "rows"
  /\ ridx < Len(df.rows)
  /\ ridx' = ridx + 1
  /\ rows_total' = rows_total + 1
  /\ LET t == table_name_of(i)
         columns == [n \in 1..Len(df.columns) |-> sanitize_column_name(df.columns[n])]
         row == df.rows[ridx + 1]
         row_hash == calculate_row_hash(RowData(df.columns, row))
     IN  IF is_duplicate(t, row_hash)
         THEN UNCHANGED <<pc, pending, rows_added, insert_errors, clean, outcome>>
         ELSE IF InsertFails(columns, row)
         THEN /\ insert_errors' = insert_errors + 1
              /\ clean' = FALSE
              /\ pc' = "sheets"
              /\ outcome' = outcome \cup {<<CurFile.base, i, "failed">>}
              /\ UNCHANGED <<pending, rows_added>>
         ELSE /\ pending' = [pending EXCEPT
                   ![t] = Append(@, StoredRow(CurFile.base, row_hash, columns, row))]
              /\ rows_added' = rows_added + 1
              /\ UNCHANGED <<pc, insert_errors, clean, outcome>>
  /\ UNCHANGED <<store, run, mainVars, fileVars, df, ddl, calls,
                 prev, rerun, pureVars, lost>>

\* One turn of the row loop: hash, duplicate check, insert.
ProcessRow ==
  /\ pc = "rows"
  /\ ridx < Len(df.rows)
  /\ ridx' = ridx + 1
  /\ rows_total' = rows_total + 1
  /\ LET t == table_name_of(i)
         columns == [n \in 1..Len(df.columns) |-> sanitize_column_name(df.columns[n])]
         row == df.rows[ridx + 1]
         row_hash == calculate_row_hash(RowData(df.columns, row))
     IN  IF is_duplicate(t, row_hash)
         THEN UNCHANGED <<pending, rows_added, insert_errors, clean>>
         ELSE IF InsertFails(columns, row)
         THEN /\ insert_errors' = insert_errors + 1
              /\ clean' = FALSE
              /\ UNCHANGED <<pending, rows_added>>
         ELSE /\ pending' = [pending EXCEPT
                   ![t] = Append(@, StoredRow(CurFile.base, row_hash, columns, row))]
              /\ rows_added' = rows_added + 1
              /\ UNCHANGED <<insert_errors, clean>>
  /\ UNCHANGED <<store, pc, run, mainVars, fileVars, df, ddl, calls, outcome,
                 prev, rerun, pureVars, lost>>

\* conn.commit() after the row loop.
CommitSheet ==
  /\ pc = "rows"
  /\ ridx = Len(df.rows)
  /\ store' = [k \in TableIds |-> [store[k] EXCEPT !.rows = @ \o pending[k]]]
  /\ pending' = NoPending
  /\ outcome' = outcome \cup {<<CurFile.base, i, "committed">>}
  /\ pc' = "sheets"
  /\ UNCHANGED <<run, mainVars, fileVars, rowVars, ddl, calls, prev, rerun,
                 clean, pureVars, lost>>

\* A plausible slip: a file with a failed worksheet is reported as failed.
ReturnTrue_strict ==
  /\ pc = "sheets"
  /\ i = Len(first_sheets(sheet_names))
  /\ LET ok == \A k \in 1..i : <<CurFile.base, k, "failed">> \notin outcome IN
       /\ calls' = Append(calls, [file |-> CurFile.base, ok |-> ok])
       /\ success_count' = IF ok THEN success_count + 1 ELSE success_count
  /\ prev' = IF clean THEN CurFile.base ELSE None
  /\ pc' = "files"
  /\ UNCHANGED <<dbVars, run, excel_files, fidx, fileVars, rowVars, ddl, outcome,
                 rerun, clean, pureVars, lost>>

\* return True, and main's tally.
ReturnTrue ==
  /\ pc = "sheets"
  /\ i = Len(first_sheets(sheet_names))
  /\ calls' = Append(calls, [file |-> CurFile.base, ok |-> TRUE])
  /\ success_count' = success_count + 1
  /\ prev' = IF clean THEN CurFile.base ELSE None
  /\ pc' = "files"
  /\ UNCHANGED <<dbVars, run, excel_files, fidx, fileVars, rowVars, ddl, outcome,
                 rerun, clean, pureVars, lost>>

\* The number of rows in the open transaction, over the tables 1..k.
RECURSIVE PendingRows(_)
PendingRows(k) == IF k = 0 THEN 0 ELSE Len(pending[k]) + PendingRows(k - 1)

\* A plausible slip: the interrupt is handled by a commit on the way out.
Interrupt_commit ==
  /\ pc \in {"files", "sheets", "table", "rows"}
  /\ pc' = "interrupted"
  /\ pending' = NoPending
  /\ lost' = PendingRows(MaxSheetsInFile)
  /\ prev' = IF pc = "files" THEN prev ELSE None
  /\ excel_files' = <<>>
  /\ fidx' = 0
  /\ success_count' = 0
  /\ sheet_names' = <<>>
  /\ i' = 0
  /\ df' = NoDf
  /\ ridx' = 0
  /\ rows_total' = 0
  /\ rows_added' = 0
  /\ insert_errors' = 0
  /\ ddl' = NoDdl
  /\ calls' = <<>>
  /\ outcome' = {}
  /\ rerun' = FALSE
  /\ clean' = TRUE
  /\ store' = [k \in TableIds |-> [store[k] EXCEPT !.rows = @ \o pending[k]]]
  /\ UNCHANGED <<run, pureVars>>

\* KeyboardInterrupt: it passes every `except Exception`, main is left
\* without a commit, and the open transaction and the variables of the
\* run are lost with the process.
Interrupt ==
  /\ pc \in {"files", "sheets", "table", "rows"}
  /\ pc' = "interrupted"
  /\ pending' = NoPending
  /\ lost' = PendingRows(MaxSheetsInFile)
  /\ prev' = IF pc = "files" THEN prev ELSE None
  /\ excel_files' = <<>>
  /\ fidx' = 0
  /\ success_count' = 0
  /\ sheet_names' = <<>>
  /\ i' = 0
  /\ df' = NoDf
  /\ ridx' = 0
  /\ rows_total' = 0
  /\ rows_added' = 0
  /\ insert_errors' = 0
  /\ ddl' = NoDdl
  /\ calls' = <<>>
  /\ outcome' = {}
  /\ rerun' = FALSE
  /\ clean' = TRUE
  /\ UNCHANGED <<store, run, pureVars>>

\* ------------------------------------------------------ query_data.py
PyNone == [kind |-> "None"]
DataFrame(rows) == [kind |-> "DataFrame", rows |-> rows]

\* The value a stored row has in a column; a column the row was not
\* given is NULL.
NULL == "NULL"

CellOf(row, id, column_name) ==
  IF column_name = ID_COL THEN id
  ELSE IF column_name = FILE_NAME_COL THEN row.file_name
  ELSE IF column_name = ROW_HASH_COL THEN row.row_hash
  ELSE IF column_name \in DOMAIN row.vals THEN row.vals[column_name]
  ELSE NULL

\* "col" = ?  and  "col" LIKE '%value%'  for texts of at most one
\* character without LIKE wildcards; NULL matches nothing.
Matches(cell, search_value, exact_match) ==
  /\ cell # NULL
  /\ IF exact_match THEN cell = search_value
     ELSE search_value = "" \/ cell = search_value

\* execute_query on the committed database.
execute_query(table_name, column_name, search_value, exact_match) ==
  IF ~store[table_name].exists THEN PyNone
  ELSE IF column_name \notin Range(ColumnNames(store[table_name])) THEN PyNone
  ELSE LET all == store[table_name].rows
           hits == {n \in 1..Len(all) :
                      Matches(CellOf(all[n], n, column_name), search_value, exact_match)}
           rows == SelectSeq([n \in 1..Len(all) |-> <<n, all[n]>>],
                             LAMBDA r : r[1] \in hits)
       IN  IF rows # <<>> THEN DataFrame(rows) ELSE PyNone

QueryColumns == {La, Lb, FILE_NAME_COL}
QueryTexts   == {"x", "z"}

\* The query tool is run against the database a completed run left.  It
\* is a process of its own: it changes nothing in the database and holds
\* none of the crawler's locals, and the model does not follow the crawler
\* any further after it.
Query(table_name, column_name, search_value, exact_match) ==
  /\ pc = "done"
  /\ pc' = "queried"
  /\ arg' = <<table_name, column_name, search_value, exact_match>>
  /\ res' = execute_query(table_name, column_name, search_value, exact_match)
  /\ excel_files' = <<>>
  /\ fidx' = 0
  /\ success_count' = 0
  /\ sheet_names' = <<>>
  /\ i' = 0
  /\ df' = NoDf
  /\ ridx' = 0
  /\ rows_total' = 0
  /\ rows_added' = 0
  /\ insert_errors' = 0
  /\ ddl' = NoDdl
  /\ calls' = <<>>
  /\ outcome' = {}
  /\ prev' = None
  /\ rerun' = FALSE
  /\ clean' = TRUE
  /\ lost' = 0
  /\ UNCHANGED <<store, pending, run>>

Next ==
  \/ \E listing \in Listings : StartRun(listing)
  \/ \E t \in TableIds, c \in QueryColumns, v \in QueryTexts, e \in BOOLEAN :
        Query(t, c, v, e)
  \/ OpenFile
  \/ FinishRun
  \/ ReadSheet
  \/ CreateTable
  \/ ProcessRow
  \/ CommitSheet
  \/ ReturnTrue
  \/ Interrupt

Spec == Init /\ [][Next]_vars

TypeOK ==
  /\ pc \in {"idle", "files", "sheets", "table", "rows", "done", "interrupted",
            "queried"}
  /\ run \in 0..MaxRuns
  /\ fidx \in 0..Len(excel_files)
  /\ success_count \in 0..Len(excel_files)


\* ------------------------------------------- the pure functions on their own
\* Everything but the argument and the result stays as Init leaves it.
InitRest ==
  /\ store = [k \in TableIds |-> EmptyTable]
  /\ pending = NoPending
  /\ run = 0
  /\ excel_files = <<>>
  /\ fidx = 0
  /\ success_count = 0
  /\ sheet_names = <<>>
  /\ i = 0
  /\ df = NoDf
  /\ ridx = 0
  /\ rows_total = 0
  /\ rows_added = 0
  /\ insert_errors = 0
  /\ ddl = NoDdl
  /\ calls = <<>>
  /\ outcome = {}
  /\ prev = None
  /\ rerun = FALSE
  /\ clean = TRUE
  /\ lost = 0

\* Every label of up to MaxLabelLen characters.
Labels == UNION {[1..n -> Chars] : n \in 0..MaxLabelLen}

InitSanitize ==
  /\ InitRest
  /\ pc = "input"
  /\ arg \in Labels
  /\ res = <<>>

\* name -> sanitize_column_name(name)
Sanitize ==
  /\ pc = "input"
  /\ res' = sanitize_column_name(arg)
  /\ pc' = "output"
  /\ UNCHANGED <<arg, restVars>>

\* The output is given to the function again.
SanitizeAgain ==
  /\ pc = "output"
  /\ arg' = res
  /\ res' = sanitize_column_name(res)
  /\ pc' = "again"
  /\ UNCHANGED restVars

NextSanitize == Sanitize \/ SanitizeAgain

SpecSanitize == InitSanitize /\ [][NextSanitize]_vars

\* Row mappings of up to MaxRowCols columns: distinct labels, any texts.
HashLabels == {La, Lb, L1, LaSpaceB, LaDashB}
HashTexts  == {"x", ""}

RowMappings ==
  {m \in UNION {[1..n -> HashLabels \X HashTexts] : n \in 0..MaxRowCols} :
     \A p, q \in 1..Len(m) : p # q => m[p][1] # m[q][1]}

\* The same mapping with its keys in another order.
Orderings(m) ==
  {[n \in 1..Len(m) |-> m[f[n]]] : f \in Permutations(1..Len(m))}

InitHash ==
  /\ InitRest
  /\ pc = "input"
  /\ arg \in RowMappings
  /\ res = <<>>

\* row_data -> calculate_row_hash(row_data)
HashRow ==
  /\ pc = "input"
  /\ res' = calculate_row_hash(arg)
  /\ pc' = "output"
  /\ UNCHANGED <<arg, restVars>>

\* The caller builds the same mapping with its columns in another order.
Reorder ==
  /\ pc = "output"
  /\ \E m \in Orderings(arg) : m # arg /\ arg' = m
  /\ pc' = "reordered"
  /\ UNCHANGED <<res, restVars>>

NextHash == HashRow \/ Reorder

SpecHash == InitHash /\ [][NextHash]_vars


\* ================================================================ claims
InFile == pc \in {"sheets", "table", "rows"}

StoredHashes(k) == {store[k].rows[n].row_hash : n \in 1..Len(store[k].rows)}

SanitizedColumns(columns) ==
  [n \in 1..Len(columns) |-> sanitize_column_name(columns[n])]

\* The row hashes of a worksheet as the row loop computes them.
SheetHashes(sheet) ==
  {SortItems(RowData(sheet.columns, NormalizeFrame(sheet).rows[n])) :
     n \in 1..Len(sheet.rows)}

BothIngested(f, g, k) ==
  /\ [file |-> f.base, ok |-> TRUE] \in Range(calls)
  /\ [file |-> g.base, ok |-> TRUE] \in Range(calls)
  /\ <<f.base, k, "committed">> \in outcome
  /\ <<g.base, k, "committed">> \in outcome

\* The hashes of the rows two files share at ordinal k and that can be inserted.
SharedContent(f, g, k) ==
  IF k > Len(f.sheets) \/ k > Len(g.sheets) THEN {}
  ELSE {h \in SheetHashes(f.sheets[k]) \cap SheetHashes(g.sheets[k]) :
          \A n \in 1..Len(h) : h[n][2] # BAD}

RecordsWith(k, h) == {n \in 1..Len(store[k].rows) : store[k].rows[n].row_hash = h}

\* C2 as stated: once two different files that share a row at ordinal k are
\* both ingested, sheet_k holds two records of that content, one per file.
C2_TwoRecords ==
  \A f, g \in Catalogue : \A k \in 1..MaxSheets :
    (f # g /\ BothIngested(f, g, k)) =>
      \A h \in SharedContent(f, g, k) :
        \E m, n \in RecordsWith(k, h) :
          /\ m # n
          /\ store[k].rows[m].file_name = f.base
          /\ store[k].rows[n].file_name = g.base

\* C2 amended: once two different files that share an insertable row at
\* ordinal k are both ingested, sheet_k holds exactly one record of that
\* content; the later file's row is skipped as a duplicate.
C2_OneRecord ==
  \A f, g \in Catalogue : \A k \in 1..MaxSheets :
    (f # g /\ BothIngested(f, g, k)) =>
      \A h \in SharedContent(f, g, k) : Cardinality(RecordsWith(k, h)) = 1

\* C2 witness: files A and B, which share the row a = "x" in worksheet 1,
\* are both ingested.
C2_Witness ==
  /\ BothIngested(FileA, FileB, 1)
  /\ SharedContent(FileA, FileB, 1) # {}
  /\ pc = "done"

\* C3 as stated: once an insert error has occurred in a worksheet, no row
\* of that worksheet becomes durable: the committed rows of its table stay
\* as they were before the worksheet.
C3_WorksheetAtomicity ==
  [][(pc = "rows" /\ insert_errors > 0) => store'[i].rows = store[i].rows]_vars

\* The worksheet at ordinal i of the current file.
CurSheet == SheetByName(CurFile, sheet_names[i])

\* C4: Row-level isolation.  (a) When a worksheet has been left and its
\* table exists, every row of it whose insert does not fail is in the
\* committed table, whether or not other rows failed; (b) rows_added counts
\* exactly the rows inserted, never a failed one; (c) every worksheet of
\* every file taken so far was dealt with and a finished run took every file.
C4_RowIsolation ==
  /\ (pc = "sheets" /\ i >= 1 /\ CurSheet.readable /\ CurSheet.rows # <<>>
        /\ store[i].exists) =>
       \A n \in 1..Len(CurSheet.rows) :
         LET row == NormalizeFrame(CurSheet).rows[n] IN
           ~InsertFails(SanitizedColumns(CurSheet.columns), row) =>
              SortItems(RowData(CurSheet.columns, row)) \in StoredHashes(i)
  /\ pc = "rows" =>
       /\ rows_added = Len(pending[i])
       /\ rows_added + insert_errors <= rows_total
       /\ \A n \in 1..Len(pending[i]) :
            \A c \in DOMAIN pending[i][n].vals : pending[i][n].vals[c] # BAD
  /\ pc \in {"files", "done"} =>
       \A j \in 1..fidx : excel_files[j].openable =>
         \A k \in 1..Min(MaxSheets, Len(excel_files[j].sheets)) :
           \E o \in {"empty", "failed", "committed"} :
             <<excel_files[j].base, k, o>> \in outcome
  /\ pc = "done" => fidx = Len(excel_files)

\* C4 witness: a worksheet with a failed insert was committed with other
\* rows of it added, and the run went on to its end.
C4_Witness ==
  /\ pc = "sheets"
  /\ i = 1
  /\ insert_errors > 0
  /\ rows_added > 1
  /\ <<CurFile.base, 1, "committed">> \in outcome
  /\ Len(calls) = MaxFiles - 1
  /\ Cardinality({n \in 1..Len(store[1].rows) :
                    store[1].rows[n].file_name = CurFile.base}) = rows_added


\* C5: Schema monotonicity.  No step removes a table, and every column of
\* a table keeps its place, its name and its declared type; an existing
\* table starts with id, file_name, row_hash and every other column is TEXT.
C5_SchemaMonotonic ==
  [][\A k \in TableIds :
       /\ store[k].exists => store'[k].exists
       /\ Len(store[k].columns) <= Len(store'[k].columns)
       /\ \A n \in 1..Len(store[k].columns) : store'[k].columns[n] = store[k].columns[n]
       /\ store'[k].exists =>
            /\ SubSeq(store'[k].columns, 1, 3) = SystemColumnDefs
            /\ \A n \in 4..Len(store'[k].columns) : store'[k].columns[n][2] = "TEXT"]_vars

\* C5 witness: an existing table went through a reconciliation in which
\* one column addition failed and another added a column, and later runs
\* with other files left the column in place.
C5_Witness ==
  /\ run = 2
  /\ pc = "done"
  /\ store[2].exists
  /\ Len(store[2].columns) > 5
  /\ ddl.attempted > 0
  /\ ddl.failed = ddl.attempted
  /\ \E n \in 1..Len(calls) : ~calls[n].ok

\* C6: Per-file failure isolation.  The calls of process_excel_file made
\* so far are the located files in listing order, one call per file;
\* success_count is the number of calls that returned True; a finished run
\* has called every located file, so success_count plus the number of
\* False results is the number of located files.
C6_PerFileIsolation ==
  LET oks  == {n \in 1..Len(calls) : calls[n].ok}
      noks == {n \in 1..Len(calls) : ~calls[n].ok}
  IN  /\ Len(calls) <= Len(excel_files)
      /\ \A n \in 1..Len(calls) : calls[n].file = excel_files[n].base
      /\ success_count = Cardinality(oks)
      /\ pc = "done" =>
           /\ Len(calls) = Len(excel_files)
           /\ success_count + Cardinality(noks) = Len(excel_files)

\* C6 witness: a finished run in which a file failed and a later file
\* was still processed successfully.
C6_Witness ==
  /\ pc = "done"
  /\ Len(calls) = MaxFiles
  /\ ~calls[1].ok
  /\ calls[Len(calls)].ok
  /\ success_count = Len(calls) - 1

\* C7: Table identity by ordinal.  A step changes the table sheet_k, or
\* inserts into it, only while the worksheet in hand is the one at position
\* k of the current file, k is at most 4 and that worksheet has rows.
C7_TableByOrdinal ==
  [][\A k \in TableIds :
       (store'[k] # store[k] \/ (pending'[k] # pending[k] /\ pending'[k] # <<>>)) =>
          /\ k <= MaxSheets
          /\ pc \in {"table", "rows"}
          /\ k <= Len(CurFile.sheets)
          /\ CurFile.sheets[k].name = df.name
          /\ CurFile.sheets[k].rows # <<>>]_vars

\* C7 witness: a workbook of five worksheets whose first worksheet failed
\* has been processed: sheet_4 was written, sheet_1 was not, sheet_5 does
\* not exist.
C7_Witness ==
  /\ pc = "files"
  /\ fidx >= 1
  /\ Len(CurFile.sheets) > MaxSheets
  /\ calls # <<>>
  /\ calls[Len(calls)] = [file |-> CurFile.base, ok |-> TRUE]
  /\ <<CurFile.base, 1, "failed">> \in outcome
  /\ store[MaxSheets].rows # <<>>
  /\ ~store[1].exists
  /\ \A k \in TableIds : k > MaxSheets => ~store[k].exists

\* C8: Hash stability.  The digest computed for a row mapping is the digest
\* of the same mapping with its keys in any other order.
C8_HashStable ==
  pc \in {"output", "reordered"} => res = calculate_row_hash(arg)

\* C8 witness: a mapping of at least two columns was hashed and then
\* put into another key order.
C8_Witness ==
  /\ pc = "reordered"
  /\ Len(arg) >= 2
  /\ arg # res

\* C9: Sanitization totality.  The result is not empty, has only word
\* characters, does not start with a digit, and is returned unchanged when
\* it is sanitized again.
C9_SanitizeTotal ==
  /\ pc \in {"output", "again"} =>
       /\ res # <<>>
       /\ \A n \in 1..Len(res) : IsWordChar(res[n])
       /\ ~IsDigit(res[1])
  /\ pc = "again" => res = arg

\* C9 witness: a label that starts with a digit and holds a symbol was
\* sanitized, and its result sanitized again.
C9_Witness ==
  /\ pc = "again"
  /\ Len(res) > Len(COL_PREFIX)
  /\ SubSeq(res, 1, Len(COL_PREFIX)) = COL_PREFIX
  /\ IsDigit(res[Len(COL_PREFIX) + 1])
  /\ \E n \in 1..Len(res) : res[n] = "_" /\ n > Len(COL_PREFIX)

\* The query in arg names an existing table and column and matches no row.
ZeroMatches ==
  /\ pc = "queried"
  /\ store[arg[1]].exists
  /\ arg[2] \in Range(ColumnNames(store[arg[1]]))
  /\ \A n \in 1..Len(store[arg[1]].rows) :
       ~Matches(CellOf(store[arg[1]].rows[n], n, arg[2]), arg[3], arg[4])

\* C10 as stated: the result of a query that matches no row differs from
\* the result of the same query on an unknown table and on an unknown column.
C10_NotFoundDistinct ==
  ZeroMatches =>
    /\ \A t \in TableIds :
         ~store[t].exists => execute_query(t, arg[2], arg[3], arg[4]) # res
    /\ \A c \in QueryColumns :
         c \notin Range(ColumnNames(store[arg[1]])) =>
           execute_query(arg[1], c, arg[3], arg[4]) # res


\* create_table_for_sheet has just reconciled a table that existed before.
ReconciledExisting == pc = "rows" /\ ~ddl.created

\* C11 as stated: a reconciliation of an existing table attempts no ADD
\* COLUMN for a column the table already has, so none of its additions
\* fails, and a file ingested again with the same columns attempts none.
C11_CheckThenAdd ==
  ReconciledExisting =>
    /\ ddl.failed = 0
    /\ rerun => ddl.attempted = 0


\* C12: Cancellation safety.  The step of an interrupt leaves the committed
\* database as it is and leaves no row of the open transaction behind; after
\* it the run processes nothing more (only a new run can follow), and no
\* step ever removes or alters a committed row.
C12_CancellationSafe ==
  [][/\ (pc' = "interrupted" /\ pc # "interrupted") =>
          (store' = store /\ pending' = NoPending)
     /\ pc = "interrupted" =>
          (store' = store /\ pending' = NoPending /\ run' = run + 1)
     /\ \A k \in TableIds :
          /\ Len(store[k].rows) <= Len(store'[k].rows)
          /\ SubSeq(store'[k].rows, 1, Len(store[k].rows)) = store[k].rows]_vars

\* C12 witness: an interrupt arrived in a row loop with rows inserted and
\* not committed, with rows of another worksheet committed before.
C12_Witness ==
  /\ pc = "interrupted"
  /\ lost > 0
  /\ \E k \in TableIds : store[k].rows # <<>>
  /\ \E k \in TableIds : store[k].exists /\ store[k].rows = <<>>


\* No two rows of the sequence carry the same row_hash.
UniqueHashes(rows) ==
  \A m, n \in 1..Len(rows) : m # n => rows[m].row_hash # rows[n].row_hash

\* The row hashes of every worksheet of every workbook, by ordinal.
CatalogueHashes ==
  [f \in Catalogue |->
     [k \in 1..Len(f.sheets) |-> SheetHashes(f.sheets[k])]]

\* The file named by the row holds the row's content at ordinal k.
FromItsFile(row, k) ==
  \E f \in Catalogue :
    /\ f.base = row.file_name
    /\ k <= Len(f.sheets)
    /\ row.row_hash \in CatalogueHashes[f][k]

\* C13: row_hash uniqueness.  In every table, as the connection sees it
\* (committed rows and the rows of the open transaction), no two rows have
\* the same row_hash; every row names a file that holds its content at the
\* table's ordinal; and a committed row is never replaced, so the name
\* stays that of the file that stored the content first.
C13_UniqueRowHash ==
  [][\A k \in TableIds :
       LET seen == store'[k].rows \o pending'[k] IN
       /\ UniqueHashes(seen)
       /\ \A n \in 1..Len(seen) : FromItsFile(seen[n], k)
       /\ \A n \in 1..Len(store[k].rows) :
            /\ n <= Len(store'[k].rows)
            /\ store'[k].rows[n] = store[k].rows[n]]_vars

\* C13 witness: worksheet 1 of file A, whose third row repeats its first,
\* and worksheet 1 of file B, which holds the same row, are both
\* committed, A first: sheet_1 has that content once, under the name A.
C13_Witness ==
  /\ pc = "done"
  /\ Len(excel_files) = 2
  /\ <<"A", 1, "committed">> \in outcome
  /\ <<"B", 1, "committed">> \in outcome
  /\ \A h \in SharedContent(FileA, FileB, 1) :
       \E n \in RecordsWith(1, h) :
         store[1].rows[n].file_name = excel_files[1].base
  /\ excel_files[1] = FileA
  /\ Len(store[1].rows) = 3


\* The worksheets of the file that the worksheet loop takes.
TakenSheets(f) == 1..Min(MaxSheets, Len(f.sheets))

\* C14: File success flag ignores worksheet failures.  A call returns True
\* exactly when the workbook could be opened, whatever became of its
\* worksheets, and success_count is the number of opened workbooks among
\* the files called so far.
C14_SuccessIgnoresSheets ==
  /\ \A n \in 1..Len(calls) :
       /\ n <= Len(excel_files)
       /\ calls[n].ok = excel_files[n].openable
  /\ pc \in {"files", "done"} =>
       success_count =
         Cardinality({n \in 1..Len(calls) : n <= Len(excel_files)
                                            /\ excel_files[n].openable})

\* C14 witness: a finished run whose only file opened, had every worksheet
\* fail, left the database without a table, and was counted as a success.
C14_Witness ==
  /\ pc = "done"
  /\ Len(excel_files) = 1
  /\ \A k \in TakenSheets(excel_files[1]) :
       <<excel_files[1].base, k, "failed">> \in outcome
  /\ TakenSheets(excel_files[1]) # {}
  /\ calls = <<[file |-> excel_files[1].base, ok |-> TRUE]>>
  /\ success_count = 1
  /\ \A k \in TableIds : ~store[k].exists

====
